---- MODULE Spec2Model ----
(***************************************************************************)
(* Attendance tracker (Streamlit.py): the row grouper, the time-cutoff     *)
(* classifier and the per-week merge of classified PDFs with an existing   *)
(* weekly table and the always-included roster.                            *)
(*                                                                         *)
(* Representation.                                                         *)
(*  - A Python dict is a record [keys, val]: keys is the insertion order,  *)
(*    val the mapping.  Overwriting a key keeps its position.              *)
(*  - A DataFrame is [columns, rows]: columns are the headers after the    *)
(*    two name columns (df.columns[2:]), each header the sequence of its   *)
(*    space-separated words; a row is [Surname, FirstName, cells].         *)
(*  - A date is its proleptic ordinal (date.toordinal()); ordinal 1 is a   *)
(*    Monday, so (ordinal - 1) \div 7 numbers the ISO weeks and stands for *)
(*    the key "<ISO year>-W<ISO week>".                                    *)
(*  - A clock string "HH:MM:SS" is the sequence of its ':'-separated       *)
(*    numeric fields.                                                      *)
(*  - A vertical position is an integer; the running value of the row      *)
(*    grouper is kept as an exact fraction with denominator Scale.         *)
(***************************************************************************)
EXTENDS Integers, Sequences, FiniteSets, TLC

VARIABLES
    always_include,   \* the roster, a list of (surname, first_name)
    uploaded_excel,   \* None or the DataFrame read from the uploaded workbook
    uploaded_pdfs,    \* the uploaded files, by name, in upload order
    pc,               \* position of the script run
    weeks,            \* week_key -> files, in order of first appearance
    skipped,          \* files warned about: no date in the name
    wi,               \* index of the week being processed
    fi,               \* index of the next file of that week
    all_attendance,   \* the working table of the week
    df_existing,      \* <<>> or the DataFrame built for the week
    observed,         \* history: (person, day_str) -> <<first flag, last flag>>
                      \* that the week's documents yielded for it
    downloads,        \* the weeks whose table was offered for download
    words,            \* row grouper: the input tokens
    tolerance,        \* row grouper: the tolerance
    grouped,          \* row grouper: None or the rows returned
    time_str,         \* classifier: the clock string of one qualifying row
    flag              \* classifier: None, the flag, or "ValueError"

vars == <<always_include, uploaded_excel, uploaded_pdfs, pc, weeks, skipped, wi, fi,
          all_attendance, df_existing, observed, downloads, words, tolerance, grouped,
          time_str, flag>>

mergeVars == <<always_include, uploaded_excel, uploaded_pdfs, pc, weeks, skipped, wi,
               fi, all_attendance, df_existing, observed, downloads>>
groupVars == <<words, tolerance, grouped>>
classVars == <<time_str, flag>>

None == "None"

-----------------------------------------------------------------------------
(* Bounds of the model *)

MaxPdfs == 2
MaxRows == 2
MaxNames == 1
MaxExistingRows == 1
MaxWords == 4
MaxTolerance == 3
MaxHour == 24
MaxMinute == 60
MaxSecond == 60

-----------------------------------------------------------------------------
(* Constants of the program *)

days == <<"Mon", "Tue", "Wed", "Thu", "Fri">>

DaySet == {days[i] : i \in 1..Len(days)}

DayStatus == {"Y", "L", "A", "H"}

cutoff_time == <<6, 1, 0>>

-----------------------------------------------------------------------------
(* Python dicts *)

EmptyDict == [keys |-> <<>>, val |-> <<>>]

Has(d, k) == \E i \in 1..Len(d.keys) : d.keys[i] = k

Put(d, k, v) ==
    [keys |-> IF Has(d, k) THEN d.keys ELSE Append(d.keys, k),
     val  |-> (k :> v) @@ d.val]

\* mutant: the default row holds blanks
BlankFlags == [d \in DaySet |-> ""]

DefaultFlags == [d \in DaySet |-> "A"]

\* all_attendance[key] of the defaultdict: the entry, or a fresh default
GetOrDefault(att, key) == IF Has(att, key) THEN att.val[key] ELSE DefaultFlags

-----------------------------------------------------------------------------
(* group_words_to_rows *)

\* positions are held as multiples of 1/Scale: a row of n tokens halves the
\* running value n - 1 times
Scale == 2 ^ MaxWords

Abs(x) == IF x < 0 THEN 0 - x ELSE x

\* mutant: the running value is the top of the last token
LastTokenTop(last_top, top) == <<top>>

\* last_top is <<>> for None, else <<value * Scale>>
RunningTop(last_top, top) ==
    IF last_top = <<>> THEN <<top>> ELSE <<(last_top[1] + top) \div 2>>

RECURSIVE GroupLoop(_, _, _, _, _, _)
GroupLoop(ws, i, tol, rows, current_row, last_top) ==
    IF i > Len(ws)
    THEN IF current_row # <<>> THEN Append(rows, current_row) ELSE rows
    ELSE LET w   == ws[i]
             top == w.top * Scale
         IN  IF last_top = <<>> \/ Abs(top - last_top[1]) <= tol * Scale
             THEN GroupLoop(ws, i + 1, tol, rows, Append(current_row, w),
                            RunningTop(last_top, top))
             ELSE GroupLoop(ws, i + 1, tol, Append(rows, current_row), <<w>>, <<top>>)

group_words_to_rows(ws, tol) == GroupLoop(ws, 1, tol, <<>>, <<>>, <<>>)

-----------------------------------------------------------------------------
(* process_pdf *)

RStripComma(cell) == cell[1]

Qualifies(row) == Len(row) = 12 /\ row[1] = "IMSL"

ParsesAsTime(t) ==
    /\ Len(t) = 3
    /\ t[1] \in 0..23
    /\ t[2] \in 0..59
    /\ t[3] \in 0..59

\* mutant: the comparison is not strict
TimeNotLater(a, b) ==
    \/ a[1] < b[1]
    \/ a[1] = b[1] /\ a[2] < b[2]
    \/ a[1] = b[1] /\ a[2] = b[2] /\ a[3] <= b[3]

TimeLess(a, b) ==
    \/ a[1] < b[1]
    \/ a[1] = b[1] /\ a[2] < b[2]
    \/ a[1] = b[1] /\ a[2] = b[2] /\ a[3] < b[3]

Flag(t) == IF TimeLess(t, cutoff_time) THEN "Y" ELSE "L"

RECURSIVE ProcessRows(_, _, _)
ProcessRows(table, r, attendance) ==
    IF r > Len(table) THEN [ok |-> TRUE, attendance |-> attendance]
    ELSE LET row == table[r] IN
         IF ~Qualifies(row) THEN ProcessRows(table, r + 1, attendance)
         ELSE IF ~ParsesAsTime(row[9]) THEN [ok |-> FALSE, attendance |-> EmptyDict]
         ELSE ProcessRows(table, r + 1,
                  Put(attendance, <<RStripComma(row[4]), row[5]>>,
                      <<row[7], Flag(row[9])>>))

process_pdf(table) == ProcessRows(table, 1, EmptyDict)

-----------------------------------------------------------------------------
(* The week's merge *)

\* mutant: the header is not split, and one that carries a date names no day
base_day_unsplit(col) == IF Len(col) = 1 THEN col[1] ELSE "dated"

base_day(col) == col[1]

RECURSIVE SeedCols(_, _, _, _)
SeedCols(flags, columns, cells, c) ==
    IF c > Len(columns) THEN flags
    ELSE SeedCols((base_day(columns[c]) :> cells[c]) @@ flags, columns, cells, c + 1)

RECURSIVE SeedRows(_, _, _)
SeedRows(att, df, r) ==
    IF r > Len(df.rows) THEN att
    ELSE LET row == df.rows[r]
             key == <<row.Surname, row.FirstName>>
         IN  SeedRows(Put(att, key,
                          SeedCols(GetOrDefault(att, key), df.columns, row.cells, 1)),
                      df, r + 1)

SeedExisting(df) == SeedRows(EmptyDict, df, 1)

\* mutant: the person's row is made afresh for each observation
UpdateEntryFreshRow(att, key, day_str, flg) ==
    IF day_str \in DaySet
    THEN Put(att, key, (day_str :> flg) @@ DefaultFlags)
    ELSE att

\* mutant: a cell already marked is left alone
UpdateEntryFirstWins(att, key, day_str, flg) ==
    IF day_str \in DaySet /\ GetOrDefault(att, key)[day_str] = "A"
    THEN Put(att, key, (day_str :> flg) @@ GetOrDefault(att, key))
    ELSE att

\* mutant: the defaultdict entry is touched before the weekday is tested
UpdateEntryTouchFirst(att, key, day_str, flg) ==
    IF day_str \in DaySet
    THEN Put(att, key, (day_str :> flg) @@ GetOrDefault(att, key))
    ELSE Put(att, key, GetOrDefault(att, key))

UpdateEntry(att, key, day_str, flg) ==
    IF day_str \in DaySet
    THEN Put(att, key, (day_str :> flg) @@ GetOrDefault(att, key))
    ELSE att

RECURSIVE UpdateEntries(_, _, _)
UpdateEntries(att, attendance, i) ==
    IF i > Len(attendance.keys) THEN att
    ELSE LET key == attendance.keys[i] IN
         UpdateEntries(UpdateEntry(att, key, attendance.val[key][1],
                                   attendance.val[key][2]),
                       attendance, i + 1)

UpdateFromPdf(att, attendance) == UpdateEntries(att, attendance, 1)

\* mutant: the membership test is inverted
EnsureNameInverted(att, name_tuple) ==
    IF Has(att, name_tuple) THEN Put(att, name_tuple, DefaultFlags) ELSE att

\* mutant: no membership test
EnsureNameAlways(att, name_tuple) == Put(att, name_tuple, DefaultFlags)

EnsureName(att, name_tuple) ==
    IF Has(att, name_tuple) THEN att ELSE Put(att, name_tuple, DefaultFlags)

RECURSIVE EnsureNames(_, _, _)
EnsureNames(att, names, i) ==
    IF i > Len(names) THEN att
    ELSE EnsureNames(EnsureName(att, names[i]), names, i + 1)

EnsureAlwaysInclude(att, names) == EnsureNames(att, names, 1)

BuildRows(att) ==
    [i \in 1..Len(att.keys) |->
        [Surname   |-> att.keys[i][1],
         FirstName |-> att.keys[i][2],
         cells     |-> [j \in 1..Len(days) |-> att.val[att.keys[i]][days[j]]]]]

BareColumns == [j \in 1..Len(days) |-> <<days[j]>>]

monday_date(week_key) == 7 * week_key + 1

day_headers(week_key) ==
    [j \in 1..Len(days) |-> <<days[j], monday_date(week_key) + (j - 1)>>]

RECURSIVE UpdateFromPdfs(_, _, _)
UpdateFromPdfs(att, attendances, i) ==
    IF i > Len(attendances) THEN att
    ELSE UpdateFromPdfs(UpdateFromPdf(att, attendances[i]), attendances, i + 1)

\* the body of the per-week loop up to the DataFrame of the week: existing is
\* <<>> or <<df>>, attendances the process_pdf results of the week's files
merge(existing, attendances, names) ==
    BuildRows(
        EnsureAlwaysInclude(
            UpdateFromPdfs(IF existing # <<>> THEN SeedExisting(existing[1])
                           ELSE EmptyDict,
                           attendances, 1),
            names))

-----------------------------------------------------------------------------
(* Inputs *)

People == {<<"Smith", "John">>, <<"Doe", "Jane">>}

FileNames == {"02_06_2025.pdf", "09_06_2025.pdf", "report.pdf"}

\* the ordinals of 2 June 2025 and 9 June 2025, two Mondays; <<>> is None
extract_date_from_filename(name) ==
    CASE name = "02_06_2025.pdf" -> <<739404>>
      [] name = "09_06_2025.pdf" -> <<739411>>
      [] OTHER                   -> <<>>

week_key_of(date) == (date - 1) \div 7

SeqsUpTo(S, n) == UNION {[1..k -> S] : k \in 0..n}

\* a line of the names box, split at its first comma and stripped
NameLines == People \cup {<<"Smith">>, <<"", "John">>}

\* clock strings: 05:58:00, 06:01:00 and the unparsable 06:01
ClockStrings == {<<5, 58, 0>>, <<6, 1, 0>>, <<6, 1>>}

AttendanceRow(p, d, t) ==
    <<"IMSL", "-", "-", <<p[1], ",">>, p[2], "-", d, "-", t, "-", "-", "-">>

\* rows of a page: clock-ins on Mon, on-time clock-ins whose weekday cell reads
\* "D", a heading, and a twelve-cell row that does not begin with IMSL
TableRows ==
    {AttendanceRow(p, "Mon", t) : p \in People, t \in ClockStrings}
    \cup {AttendanceRow(p, "D", <<5, 58, 0>>) : p \in People}
    \cup {<<"Name", "Day", "Time">>,
          <<"Site", "-", "-", <<"Smith", ",">>, "John", "-", "Mon", "-", <<5, 58, 0>>,
            "-", "-", "-">>}

Tables == SeqsUpTo(TableRows, MaxRows)

\* what process_pdf makes of the tables a file may hold
PdfResults == {process_pdf(table) : table \in Tables}

ExistingCells == {<<"Y", "L", "A", "H", "Y">>, <<"A", "A", "A", "A", "A">>}

ExistingColumns == {day_headers(105629), SubSeq(BareColumns, 1, 4)}

\* workbooks with one row per person, the five dated day columns or the bare
\* columns Mon..Thu, and DayStatus cells
ExistingTables ==
    {[columns |-> cols,
      rows    |-> [r \in DOMAIN who |->
                      [Surname   |-> who[r][1],
                       FirstName |-> who[r][2],
                       cells     |-> SubSeq(cells[r], 1, Len(cols))]]] :
        cols \in ExistingColumns,
        who \in {w \in SeqsUpTo(People, MaxExistingRows) :
                    \A i, j \in DOMAIN w : w[i] = w[j] => i = j},
        cells \in [1..MaxExistingRows -> ExistingCells]}

-----------------------------------------------------------------------------
(* The script run *)

KeepNames(lines) ==
    SelectSeq(lines, LAMBDA l : Len(l) = 2 /\ l[1] # "" /\ l[2] # "")

RECURSIVE PartitionFiles(_, _, _)
PartitionFiles(files, i, w) ==
    IF i > Len(files) THEN w
    ELSE LET date == extract_date_from_filename(files[i]) IN
         IF date = <<>> THEN PartitionFiles(files, i + 1, w)
         ELSE LET week_key == week_key_of(date[1])
                  sofar    == IF Has(w, week_key) THEN w.val[week_key] ELSE <<>>
              IN  PartitionFiles(files, i + 1, Put(w, week_key, Append(sofar, files[i])))

Undated(files) == SelectSeq(files, LAMBDA f : extract_date_from_filename(f) = <<>>)

week_key == weeks.keys[wi]

\* history of the week's observations: the first and the last flag a document
\* yielded for (person, day_str), whatever day_str is
Record(obs, attendance) ==
    [c \in DOMAIN obs \cup {<<k, attendance.val[k][1]>> : k \in DOMAIN attendance.val} |->
        IF c[1] \in DOMAIN attendance.val /\ attendance.val[c[1]][1] = c[2]
        THEN <<IF c \in DOMAIN obs THEN obs[c][1] ELSE attendance.val[c[1]][2],
               attendance.val[c[1]][2]>>
        ELSE obs[c]]

files_of_week == weeks.val[week_key]

MergeInit ==
    /\ always_include \in SeqsUpTo(People, MaxNames)
    /\ uploaded_excel = <<>>
    /\ uploaded_pdfs = <<>>
    /\ pc = "idle"
    /\ weeks = EmptyDict
    /\ skipped = <<>>
    /\ wi = 0
    /\ fi = 0
    /\ all_attendance = EmptyDict
    /\ df_existing = <<>>
    /\ observed = <<>>
    /\ downloads = <<>>

SaveNames ==
    /\ pc = "idle"
    /\ \E names_input \in SeqsUpTo(NameLines, MaxNames) :
           always_include' = KeepNames(names_input)
    /\ UNCHANGED <<uploaded_excel, uploaded_pdfs, pc, weeks, skipped, wi, fi,
                   all_attendance, df_existing, observed, downloads>>

UploadExcel ==
    /\ pc = "idle"
    /\ uploaded_excel = <<>>
    /\ \E df \in ExistingTables : uploaded_excel' = <<df>>
    /\ UNCHANGED <<always_include, uploaded_pdfs, pc, weeks, skipped, wi, fi,
                   all_attendance, df_existing, observed, downloads>>

UploadPdf ==
    /\ pc = "idle"
    /\ Len(uploaded_pdfs) < MaxPdfs
    /\ \E name \in FileNames : uploaded_pdfs' = Append(uploaded_pdfs, name)
    /\ UNCHANGED <<always_include, uploaded_excel, pc, weeks, skipped, wi, fi,
                   all_attendance, df_existing, observed, downloads>>

NoPdfs ==
    /\ pc = "idle"
    /\ uploaded_pdfs = <<>>
    /\ pc' = "done"
    /\ UNCHANGED <<always_include, uploaded_excel, uploaded_pdfs, weeks, skipped, wi,
                   fi, all_attendance, df_existing, observed, downloads>>

Partition ==
    /\ pc = "idle"
    /\ uploaded_pdfs # <<>>
    /\ weeks' = PartitionFiles(uploaded_pdfs, 1, EmptyDict)
    /\ skipped' = Undated(uploaded_pdfs)
    /\ wi' = 1
    /\ pc' = IF Len(weeks'.keys) = 0 THEN "done" ELSE "week"
    /\ UNCHANGED <<always_include, uploaded_excel, uploaded_pdfs, fi, all_attendance,
                   df_existing, observed, downloads>>

\* The head of the week loop.  df_existing is dead here (both paths assign it
\* before reading it), so it is cleared; the workbook read at line 175 stays in
\* uploaded_excel.
StartWeek ==
    /\ pc = "week"
    /\ all_attendance' = IF uploaded_excel # <<>>
                         THEN SeedExisting(uploaded_excel[1])
                         ELSE EmptyDict
    /\ df_existing' = <<>>
    /\ observed' = <<>>
    /\ fi' = 1
    /\ pc' = "pdfs"
    /\ UNCHANGED <<always_include, uploaded_excel, uploaded_pdfs, weeks, skipped, wi,
                   downloads>>

\* One file of the week: its page is read when process_pdf opens it.
ProcessPdf ==
    /\ pc = "pdfs"
    /\ fi <= Len(files_of_week)
    /\ \E res \in PdfResults :
           /\ res.ok
           /\ all_attendance' = UpdateFromPdf(all_attendance, res.attendance)
           /\ observed' = Record(observed, res.attendance)
    /\ fi' = fi + 1
    /\ UNCHANGED <<always_include, uploaded_excel, uploaded_pdfs, pc, weeks, skipped,
                   wi, df_existing, downloads>>

\* strptime raises ValueError on a qualifying row; nothing catches it, and the
\* script run ends.
ProcessPdfRaises ==
    /\ pc = "pdfs"
    /\ fi <= Len(files_of_week)
    /\ \E res \in PdfResults : ~res.ok
    /\ pc' = "crashed"
    /\ UNCHANGED <<always_include, uploaded_excel, uploaded_pdfs, weeks, skipped, wi,
                   fi, all_attendance, df_existing, observed, downloads>>

\* After the last file of the week: roster fill, rows, DataFrame, dated
\* headers, download button.
FinishWeek ==
    /\ pc = "pdfs"
    /\ fi > Len(files_of_week)
    /\ all_attendance' = EnsureAlwaysInclude(all_attendance, always_include)
    /\ df_existing' = <<[columns |-> day_headers(week_key),
                          rows    |-> BuildRows(all_attendance')]>>
    /\ downloads' = Append(downloads, week_key)
    /\ wi' = wi + 1
    /\ pc' = IF wi + 1 > Len(weeks.keys) THEN "done" ELSE "week"
    /\ UNCHANGED <<always_include, uploaded_excel, uploaded_pdfs, weeks, skipped, fi,
                   observed>>

GroupIdle ==
    /\ words = <<>>
    /\ tolerance = 0
    /\ grouped = <<>>

ClassIdle ==
    /\ time_str = <<>>
    /\ flag = None

Init ==
    /\ MergeInit
    /\ GroupIdle
    /\ ClassIdle

Next ==
    \/ SaveNames /\ UNCHANGED <<groupVars, classVars>>
    \/ UploadExcel /\ UNCHANGED <<groupVars, classVars>>
    \/ UploadPdf /\ UNCHANGED <<groupVars, classVars>>
    \/ NoPdfs /\ UNCHANGED <<groupVars, classVars>>
    \/ Partition /\ UNCHANGED <<groupVars, classVars>>
    \/ StartWeek /\ UNCHANGED <<groupVars, classVars>>
    \/ ProcessPdf /\ UNCHANGED <<groupVars, classVars>>
    \/ ProcessPdfRaises /\ UNCHANGED <<groupVars, classVars>>
    \/ FinishWeek /\ UNCHANGED <<groupVars, classVars>>

Spec == Init /\ [][Next]_vars

-----------------------------------------------------------------------------
(* The row grouper on its own: the tokens of a page, sorted by (top, x0) as   *)
(* extract_table_from_pdf passes them                                          *)

TopValues == {10, 11, 12, 14, 17, 50}

Tokens == [top : TopValues, x0 : {1, 2}]

Sorted(ws) ==
    \A i \in 1..(Len(ws) - 1) :
        \/ ws[i].top < ws[i + 1].top
        \/ ws[i].top = ws[i + 1].top /\ ws[i].x0 <= ws[i + 1].x0

WordLists == {ws \in SeqsUpTo(Tokens, MaxWords) : Sorted(ws)}

GroupInit ==
    /\ words \in WordLists
    /\ tolerance \in 0..MaxTolerance
    /\ grouped = <<>>
    /\ ClassIdle
    /\ always_include = <<>>
    /\ uploaded_excel = <<>>
    /\ uploaded_pdfs = <<>>
    /\ pc = "idle"
    /\ weeks = EmptyDict
    /\ skipped = <<>>
    /\ wi = 0
    /\ fi = 0
    /\ all_attendance = EmptyDict
    /\ df_existing = <<>>
    /\ observed = <<>>
    /\ downloads = <<>>

\* grouped is <<>> before the call and <<rows>> after it
GroupWords ==
    /\ grouped = <<>>
    /\ grouped' = <<group_words_to_rows(words, tolerance)>>
    /\ UNCHANGED <<words, tolerance, mergeVars, classVars>>

GroupNext == GroupWords

SpecGroup == GroupInit /\ [][GroupNext]_vars

-----------------------------------------------------------------------------
(* The classification of one qualifying row on its own *)

ClockInputs ==
    {<<h, m, s>> : h \in 0..MaxHour, m \in 0..MaxMinute, s \in 0..MaxSecond}
    \cup {<<6, 1>>}

ClassInit ==
    /\ time_str \in ClockInputs
    /\ flag = None
    /\ GroupIdle
    /\ always_include = <<>>
    /\ uploaded_excel = <<>>
    /\ uploaded_pdfs = <<>>
    /\ pc = "idle"
    /\ weeks = EmptyDict
    /\ skipped = <<>>
    /\ wi = 0
    /\ fi = 0
    /\ all_attendance = EmptyDict
    /\ df_existing = <<>>
    /\ observed = <<>>
    /\ downloads = <<>>

ClassifyRow ==
    /\ flag = None
    /\ flag' = IF ParsesAsTime(time_str) THEN Flag(time_str) ELSE "ValueError"
    /\ UNCHANGED <<time_str, mergeVars, groupVars>>

ClassNext == ClassifyRow

SpecClassify == ClassInit /\ [][ClassNext]_vars

-----------------------------------------------------------------------------
(* Reading the state for the properties *)

Range(f) == {f[i] : i \in DOMAIN f}

\* the table of a week has just been built and offered for download
Finished == pc \in {"week", "done"} /\ df_existing # <<>>

KeyOf(row) == <<row.Surname, row.FirstName>>

KeysOf(rows) == {KeyOf(rows[i]) : i \in DOMAIN rows}

\* the statuses the rows hold for person P on the day-th weekday
StatusesOf(rows, P, j) == {rows[i].cells[j] : i \in {k \in DOMAIN rows : KeyOf(rows[k]) = P}}

OutRows == df_existing[1].rows

OutKeys == KeysOf(OutRows)

DayIndex(d) == CHOOSE j \in 1..Len(days) : days[j] = d

\* output[P][d] = v: P has a row, and every row of P holds v on day d
OutIs(P, d, v) == P \in OutKeys /\ StatusesOf(OutRows, P, DayIndex(d)) = {v}

HasExisting == uploaded_excel # <<>>

ExistingRows == IF HasExisting THEN uploaded_excel[1].rows ELSE <<>>

ExistingKeys == KeysOf(ExistingRows)

\* the column of the uploaded workbook that is headed by day d, if any
ExistingColumnsOf(d) ==
    IF HasExisting
    THEN {c \in DOMAIN uploaded_excel[1].columns : uploaded_excel[1].columns[c][1] = d}
    ELSE {}

ExistingDays == {d \in DaySet : ExistingColumnsOf(d) # {}}

\* existing[P][d], for P a key and d a day of the uploaded workbook
ExistingStatus(P, d) ==
    LET c == CHOOSE c \in ExistingColumnsOf(d) : TRUE
        r == CHOOSE r \in DOMAIN ExistingRows : KeyOf(ExistingRows[r]) = P
    IN  ExistingRows[r].cells[c]

RosterSet == Range(always_include)

Observed(P, d) == <<P, d>> \in DOMAIN observed

ObservedDays(P) == {c[2] : c \in {x \in DOMAIN observed : x[1] = P}}

AsMapping(rows) == {<<KeyOf(rows[i]), rows[i].cells>> : i \in DOMAIN rows}

-----------------------------------------------------------------------------
(* Properties *)

\* C1  Roster completeness: every name of the roster has a row in the table
\* built for a week, with or without an existing workbook.
RosterCompleteness ==
    Finished => \A P \in RosterSet : P \in OutKeys

\* C1 witness: a week finished on the existing-workbook path, the workbook and
\* the documents naming other people, with a roster name that neither of them
\* mentions: the name is in the table only through the roster step.
RosterFillWitness ==
    /\ Finished
    /\ HasExisting
    /\ \E P \in RosterSet :
           /\ P \notin ExistingKeys
           /\ ObservedDays(P) = {}
           /\ ExistingKeys # {}
           /\ DOMAIN observed # {}
           /\ P \in OutKeys

\* C2  Status preservation: a cell of the existing workbook that no document of
\* the week observes is in the output as it was in the workbook.
StatusPreservation ==
    (Finished /\ HasExisting) =>
        \A P \in ExistingKeys : \A d \in ExistingDays :
            ~Observed(P, d) => OutIs(P, d, ExistingStatus(P, d))

\* C2 witness: a person of the workbook is observed on Mon, another person is
\* observed too, and the first person's Tue and Thu cells are the workbook's
\* L and H.
StatusPreservationWitness ==
    /\ Finished
    /\ HasExisting
    /\ \E P \in ExistingKeys :
           /\ Observed(P, "Mon")
           /\ \E Q \in People \ {P} : ObservedDays(Q) # {}
           /\ ExistingDays = {"Mon", "Tue", "Wed", "Thu"}
           /\ ExistingStatus(P, "Tue") = "L"
           /\ ExistingStatus(P, "Thu") = "H"
           /\ OutIs(P, "Tue", "L")
           /\ OutIs(P, "Thu", "H")
           /\ OutIs(P, "Fri", "A")

\* C3  Overwrite ordering: a cell that documents of the week observe holds the
\* flag of the last document that observes it, whatever the workbook or the
\* earlier documents held.
OverwriteOrdering ==
    Finished =>
        \A c \in DOMAIN observed :
            c[2] \in DaySet => OutIs(c[1], c[2], observed[c][2])

\* C3 witness: two documents of a week gave different flags for a cell, the
\* workbook held a third value, and the table holds the later flag.
OverwriteWitness ==
    /\ Finished
    /\ \E c \in DOMAIN observed :
           /\ c[2] = "Mon"
           /\ observed[c][1] = "Y"
           /\ observed[c][2] = "L"
           /\ c[1] \in ExistingKeys
           /\ "Mon" \in ExistingDays
           /\ ExistingStatus(c[1], "Mon") = "A"
           /\ OutIs(c[1], "Mon", "L")

\* C4  Idempotence: a table built from scratch, uploaded again as the existing
\* workbook and merged with no documents and the same roster, comes back with
\* the same persons and the same five statuses each.
Idempotence ==
    (Finished /\ ~HasExisting) =>
        AsMapping(merge(df_existing, <<>>, always_include)) = AsMapping(OutRows)

\* C4 witness: a table built from scratch that holds an observed L and a row
\* that only the roster put there.
IdempotenceWitness ==
    /\ Finished
    /\ ~HasExisting
    /\ \E P \in OutKeys : OutIs(P, "Mon", "L") /\ OutIs(P, "Tue", "A")
    /\ \E R \in RosterSet : ObservedDays(R) = {} /\ R \in OutKeys

\* C5  Non-destructive roster fill: a person of the existing workbook who is on
\* the roster keeps the workbook's row when no document is merged, and when the
\* week's documents say nothing of that person; the roster step puts a row of
\* five A only for a name that the workbook and the documents left out.
NonDestructiveRosterFill ==
    HasExisting =>
        /\ \A P \in ExistingKeys \cap RosterSet : \A d \in ExistingDays :
               /\ pc = "idle" =>
                      StatusesOf(merge(uploaded_excel, <<>>, always_include), P,
                                 DayIndex(d)) = {ExistingStatus(P, d)}
               /\ (Finished /\ ObservedDays(P) = {}) =>
                      OutIs(P, d, ExistingStatus(P, d))
        /\ Finished =>
               \A P \in RosterSet \ ExistingKeys :
                   ObservedDays(P) \cap DaySet = {} => \A d \in DaySet : OutIs(P, d, "A")

\* C5 witness: a week finished whose documents yielded nothing, with a roster
\* person whose workbook row is not the default.
RosterKeepsRowWitness ==
    /\ Finished
    /\ HasExisting
    /\ DOMAIN observed = {}
    /\ \E P \in ExistingKeys \cap RosterSet :
           /\ ExistingStatus(P, "Mon") = "Y"
           /\ ExistingStatus(P, "Thu") = "H"
           /\ OutIs(P, "Mon", "Y")
           /\ OutIs(P, "Thu", "H")

\* a person the week's documents observe, and only on strings that are no weekday
UnrecognizedOnly(P) == ObservedDays(P) # {} /\ ObservedDays(P) \cap DaySet = {}

\* C6 as claimed: a person observed only on an unrecognized weekday, in neither
\* the workbook nor the roster, is in the table with five A.
UnrecognizedShownAbsent ==
    Finished =>
        \A P \in People :
            (UnrecognizedOnly(P) /\ P \notin ExistingKeys /\ P \notin RosterSet)
                => \A d \in DaySet : OutIs(P, d, "A")

\* C6 as amended: such a person has no row in the table.
UnrecognizedDiscarded ==
    Finished =>
        \A P \in People :
            (UnrecognizedOnly(P) /\ P \notin ExistingKeys /\ P \notin RosterSet)
                => P \notin OutKeys

\* C6 witness: a table built from scratch after a document gave "D" for Smith,
\* John, who is not on the roster.
UnrecognizedWitness ==
    /\ Finished
    /\ ~HasExisting
    /\ UnrecognizedOnly(<<"Smith", "John">>)
    /\ <<"Smith", "John">> \notin RosterSet
    /\ <<"Smith", "John">> \notin OutKeys

\* C7 as claimed: a document that cannot be classified does not abort the
\* batch: when the run has ended, the table of every week has been produced,
\* but for a week whose only document is the one that failed.
FailureIsolation ==
    pc \in {"done", "crashed"} =>
        \A i \in DOMAIN weeks.keys :
            \/ weeks.keys[i] \in Range(downloads)
            \/ pc = "crashed" /\ i = wi /\ Len(files_of_week) = 1

\* C8  No partial rows: every row has five statuses, each a DayStatus, and a
\* day neither observed nor supplied by the workbook is A.
NoPartialRows ==
    Finished =>
        \A i \in DOMAIN OutRows :
            /\ DOMAIN OutRows[i].cells = 1..5
            /\ \A j \in 1..5 : OutRows[i].cells[j] \in DayStatus
            /\ \A d \in DaySet :
                   (/\ ~Observed(KeyOf(OutRows[i]), d)
                    /\ ~(KeyOf(OutRows[i]) \in ExistingKeys /\ d \in ExistingDays))
                       => OutRows[i].cells[DayIndex(d)] = "A"

\* C8 witness: a table with a workbook row holding H whose Fri the workbook
\* does not supply, and a row that a document created.
NoPartialRowsWitness ==
    /\ Finished
    /\ HasExisting
    /\ ExistingDays = {"Mon", "Tue", "Wed", "Thu"}
    /\ \E P \in ExistingKeys : OutIs(P, "Thu", "H") /\ OutIs(P, "Fri", "A")
    /\ \E Q \in OutKeys \ (ExistingKeys \cup RosterSet) :
           OutIs(Q, "Mon", "L") /\ OutIs(Q, "Tue", "A")


SecondsOf(t) == t[1] * 3600 + t[2] * 60 + t[3]

\* C9  Cutoff boundary: a valid clock time gets Y exactly when it is earlier
\* than 06:01:00 and L otherwise, never anything else; 06:00:59 gets Y and
\* 06:01:00 gets L.
CutoffBoundary ==
    (/\ flag # None
     /\ Len(time_str) = 3
     /\ time_str[1] < 24 /\ time_str[2] < 60 /\ time_str[3] < 60) =>
        /\ flag \in {"Y", "L"}
        /\ flag = "Y" <=> SecondsOf(time_str) < 6 * 3600 + 1 * 60
        /\ time_str = <<6, 0, 59>> => flag = "Y"
        /\ time_str = <<6, 1, 0>> => flag = "L"

\* C9 witness: 06:01:00 has been classified, as L.
CutoffWitness == time_str = <<6, 1, 0>> /\ flag = "L"

RECURSIVE Flatten(_)
Flatten(rows) == IF rows = <<>> THEN <<>> ELSE Head(rows) \o Flatten(Tail(rows))

RECURSIVE RowStarts(_, _)
\* the indices of the input at which the rows begin, the first being at
RowStarts(rows, at) ==
    IF rows = <<>> THEN {} ELSE {at} \cup RowStarts(Tail(rows), at + Len(Head(rows)))

RECURSIVE WeightedTops(_, _, _)
\* top[s] + top[s+1] * 1 + top[s+2] * 2 + ... + top[j] * 2^(j-s-1): the running
\* value after tokens s..j of a row, times 2^(j-s)
WeightedTops(ws, s, j) ==
    IF j = s THEN ws[s].top
    ELSE WeightedTops(ws, s, j - 1) + ws[j].top * 2 ^ (j - s - 1)

\* token i is further than tol from the running value of the row that began at
\* token s and holds the tokens s..i-1
FarFromRow(ws, s, i, tol) ==
    Abs(ws[i].top * 2 ^ (i - 1 - s) - WeightedTops(ws, s, i - 1)) > tol * 2 ^ (i - 1 - s)

\* C10  Row grouping: the rows are non-empty, their concatenation is the input,
\* a row begins exactly at each token further than the tolerance from the
\* running value of the row before it, and tops 10, 11, 12, 50 with tolerance
\* 3 give a row of three tokens and a row of one.
RowGrouping ==
    grouped # <<>> =>
        LET rows   == grouped[1]
            starts == RowStarts(rows, 1)
        IN  /\ \A r \in DOMAIN rows : rows[r] # <<>>
            /\ Flatten(rows) = words
            /\ words = <<>> => rows = <<>>
            /\ \A i \in 2..Len(words) :
                   LET s == CHOOSE s \in starts :
                                s < i /\ \A u \in starts : u < i => u <= s
                   IN  i \in starts <=> FarFromRow(words, s, i, tolerance)
            /\ ([i \in DOMAIN words |-> words[i].top] = <<10, 11, 12, 50>>
                /\ tolerance = 3)
                   => [r \in DOMAIN rows |-> Len(rows[r])] = <<3, 1>>

\* C10 witness: tops 10, 11, 12, 50 were grouped with tolerance 3 into two rows.
RowGroupingWitness ==
    /\ grouped # <<>>
    /\ [i \in DOMAIN words |-> words[i].top] = <<10, 11, 12, 50>>
    /\ tolerance = 3
    /\ Len(grouped[1]) = 2

====
